---- MODULE Spec2Model ----
(***************************************************************************)
(* A model of the github-apps crate: the installation access-token cache   *)
(* (src/github-apps/src/cache.rs), the App client and its pagination loop  *)
(* (src/github-apps/src/lib.rs) and the response check                     *)
(* (src/github-apps/src/error.rs).                                         *)
(***************************************************************************)
EXTENDS Integers, Sequences, FiniteSets, TLC

VARIABLES
    now,        \* Utc::now(), in seconds
    ticks,      \* how often the clock has advanced
    cache,      \* Inner.cache: the HashMap<u64, AccessToken>, a function on the ids present
    lock,       \* the holder of Inner.cache's Mutex, or Free
    pc,         \* where each caller of Cache::access_token stands
    inst,       \* the installation.id each caller passed
    result,     \* what each caller's call returned
    checked,    \* the arm of the match each call took and, while it is suspended, when
    reqs,       \* POST requests sent by each caller's current call
    sent,       \* POST requests sent in total
    calls,      \* calls of Cache::access_token begun in total
    waited,     \* history: whether the call has found the lock taken, at lock().await or later
    server,     \* the upstream's installations collection: each page's size and next page
    op,         \* the App method under way
    apc,        \* where the App method stands
    url,        \* pagination's url: Option<Url>
    cur,        \* pagination's u, the URL taken from url
    items,      \* pagination's items
    response,   \* the response in hand
    aresult,    \* what the App method returned
    gets,       \* requests sent by the App method
    signs,      \* calls of App::jwt by the App method
    decodes,    \* calls of Response::json by the App method
    id,         \* App.id
    key_ok,     \* whether App.private_key is a key that RS256 can sign with
    clock,      \* Utc::now(), in milliseconds
    jwts        \* what the calls of App::jwt returned, in order

cacheVars == <<now, ticks, cache, lock, pc, inst, result, checked, reqs, sent, calls>>

appVars == <<server, op, apc, url, cur, items, response, aresult, gets, signs, decodes>>

jwtVars == <<id, key_ok, clock, jwts>>

vars == <<cacheVars, appVars, jwtVars, waited>>

----------------------------------------------------------------------------
(* Bounds and program constants *)

\* Duration::seconds(60) of the renewal check
Margin == 60

\* calls of Cache::access_token begun in one behaviour
MaxCalls == 3

\* advances of the clock in one behaviour
MaxTicks == 1

Callers == {"c1", "c2"}

\* installation ids
Installations == {1, 2}

\* by how much the clock advances at once
ClockStep == Margin

\* expires_at - now of the tokens the upstream API hands out
Lifetimes == {Margin - 1, 2 * Margin}

Free == "free"

----------------------------------------------------------------------------
(* Result<T, Error> *)

Ok(v) == [ok |-> TRUE, val |-> <<v>>, err |-> <<>>]

Err(e) == [ok |-> FALSE, val |-> <<>>, err |-> <<e>>]

NoResult == [ok |-> FALSE, val |-> <<>>, err |-> <<>>]

\* Error::RestApi(rest_api::Error { status, message, .. })
RestApi(status, message) == [kind |-> "RestApi", status |-> status, message |-> message]

\* Error::Reqwest
Reqwest == [kind |-> "Reqwest", status |-> 0, message |-> "none"]

\* Error::Jsonwebtoken
Jsonwebtoken == [kind |-> "Jsonwebtoken", status |-> 0, message |-> "none"]

\* Error::Hyper
Hyper == [kind |-> "Hyper", status |-> 0, message |-> "none"]

\* Error::ReqwestHeaderToStr
ReqwestHeaderToStr == [kind |-> "ReqwestHeaderToStr", status |-> 0, message |-> "none"]

\* Error::UrlParse
UrlParse == [kind |-> "UrlParse", status |-> 0, message |-> "none"]

----------------------------------------------------------------------------
(* Responses of the upstream API *)

\* body: "typed" decodes into the expected type (and, being a JSON object, into
\* the error Payload, whose fields are all optional); "error_json" is a JSON
\* object that is no value of the expected type; "text" is no JSON object;
\* "unreadable" is a body whose transfer fails.
Bodies == {"typed", "error_json", "text", "unreadable"}


\* the Link header of a response: absent; present but not visible ASCII
\* (to_str fails); present but no Link header by its syntax (parse::<Link>
\* fails); or a list of link values, each with its rel parameter (if any) and
\* its link, which Url::parse accepts or not
Absent == [kind |-> "absent", values |-> <<>>]

NotStr == [kind |-> "notstr", values |-> <<>>]

Unparsable == [kind |-> "unparsable", values |-> <<>>]

Values(vs) == [kind |-> "values", values |-> vs]

LinkValue(rel, link) == [rel |-> rel, link |-> link]

GoodUrl(u) == [parses |-> TRUE, url |-> u]

BadUrl == [parses |-> FALSE, url |-> 0]

PageResponse(status, link, body) == [status |-> status, body |-> body, link |-> link]

Response(status, body) == PageResponse(status, Absent, body)

\* StatusCode::is_success
is_success(status) == status >= 200 /\ status < 300

\* a faulty variant of check_rest_api_response: every response is passed on
check_nothing(res) == Ok(res)

\* Error::check_rest_api_response, which lib.rs calls as Error::check_status
check_rest_api_response(res) ==
    IF is_success(res.status)
    THEN Ok(res)
    ELSE IF res.body = "unreadable"
         THEN Err(Reqwest)
         ELSE IF res.body \in {"typed", "error_json"}
              THEN Err(RestApi(res.status, "payload"))
              ELSE Err(RestApi(res.status, "text"))

\* Response::json::<T>(): value is what a "typed" body decodes to
json(res, value) ==
    IF res.body = "typed" THEN Ok(value) ELSE Err(Reqwest)

\* what send().await gives: no response at all, or a response
NoResponse == [sent |-> FALSE, response |-> Response(0, "unreadable")]

Received(res) == [sent |-> TRUE, response |-> res]

\* App::access_token from send().await on: check_status(..).await?.json().await?
access_token_response(net, value) ==
    IF ~net.sent
    THEN Err(Reqwest)
    ELSE LET c == check_rest_api_response(net.response)
         IN  IF c.ok THEN json(c.val[1], value) ELSE c

\* the outcomes of the POST that the cache's callers see: no response, the
\* token, a body that is no token, an error status
TokenOutcomes ==
    {NoResponse, Received(Response(201, "typed")), Received(Response(201, "text")),
     Received(Response(500, "text"))}

----------------------------------------------------------------------------
(* Cache *)

\* AccessToken { token, expires_at }; installation: whose access_tokens_url minted it
AccessToken(token, expires_at, installation) ==
    [token |-> token, expires_at |-> expires_at, installation |-> installation]

\* a faulty variant of Insert: the other entries are lost
InsertAlone(map, k, v) == [i \in {k} |-> v]

\* HashMap::insert / the write through Entry::into_mut
Insert(map, k, v) == [i \in DOMAIN map \cup {k} |-> IF i = k THEN v ELSE map[i]]

\* a faulty variant of entry: a placeholder is inserted before the request is awaited
entryOrDefault(map, k) == Insert(map, k, AccessToken(0, 0, k))

\* HashMap::entry: the map while the Entry is held across the await
entry(map, k) == map

\* a faulty variant of Expiring: the margin is left out
ExpiringNoMargin(access_token, t) == access_token.expires_at < t

\* a faulty variant of Expiring: <= for <
ExpiringInclusive(access_token, t) == access_token.expires_at <= t + Margin

\* access_token.expires_at < Utc::now() + Duration::seconds(60)
Expiring(access_token, t) == access_token.expires_at < t + Margin

NotChecked == [path |-> "none", at |-> 0]

\* Cache::new
CacheInit ==
    /\ now = 0
    /\ ticks = 0
    /\ cache = << >>
    /\ lock = Free
    /\ pc = [p \in Callers |-> "idle"]
    /\ inst = [p \in Callers |-> 1]
    /\ result = [p \in Callers |-> NoResult]
    /\ checked = [p \in Callers |-> NotChecked]
    /\ reqs = [p \in Callers |-> 0]
    /\ sent = 0
    /\ calls = 0
    /\ waited = [p \in Callers |-> FALSE]

\* the clock advances
Tick ==
    /\ ticks < MaxTicks
    /\ now' = now + ClockStep
    /\ ticks' = ticks + 1
    /\ UNCHANGED <<appVars, jwtVars, cache, lock, pc, inst, result, checked, reqs, sent, calls>>

\* a caller that has no call under way (it has the result of its last call, or
\* has dropped it) calls Cache::access_token(client, installation): it waits
\* for the lock
Call(p) ==
    /\ pc[p] \in {"idle", "done", "dropped"}
    /\ calls < MaxCalls
    /\ \E i \in Installations : inst' = [inst EXCEPT ![p] = i]
    /\ pc' = [pc EXCEPT ![p] = "lock"]
    /\ result' = [result EXCEPT ![p] = NoResult]
    /\ checked' = [checked EXCEPT ![p] = NotChecked]
    /\ reqs' = [reqs EXCEPT ![p] = 0]
    /\ calls' = calls + 1
    /\ UNCHANGED <<appVars, jwtVars, now, ticks, cache, lock, sent>>

\* a faulty variant of MayLock: the lock is not waited for
MayLockAny(p) == TRUE

\* a faulty variant of MayLock: one lock for each installation id
MayLockPerKey(p) == IF lock = Free THEN TRUE ELSE inst[lock] # inst[p]

\* whether a waiter may take the Mutex
MayLock(p) == lock = Free

\* a faulty variant of Unlock: the guard is leaked
UnlockLeak(p) == p

\* the guard is dropped
Unlock(p) == Free

\* the entry is occupied and not expiring: the clone of the entry is returned
Hit(p) ==
    /\ pc[p] = "lock"
    /\ MayLock(p)
    /\ inst[p] \in DOMAIN cache
    /\ ~Expiring(cache[inst[p]], now)
    /\ result' = [result EXCEPT ![p] = Ok(cache[inst[p]])]
    /\ checked' = [checked EXCEPT ![p] = [path |-> "hit", at |-> now]]
    /\ pc' = [pc EXCEPT ![p] = "done"]
    /\ lock' = Unlock(p)
    /\ UNCHANGED <<appVars, jwtVars, now, ticks, cache, inst, reqs, sent, calls>>

\* a faulty variant of Path: the expiry of an occupied entry is not looked at
PathAlwaysRenew(p) == IF inst[p] \in DOMAIN cache THEN "renew" ELSE "mint"

\* which arm of the match needs App::access_token
Path(p) ==
    IF inst[p] \in DOMAIN cache
    THEN IF Expiring(cache[inst[p]], now) THEN "renew" ELSE "hit"
    ELSE "mint"

\* the entry is vacant or expiring and App::jwt succeeds: the POST is sent, and
\* the call is suspended with the lock held
Request(p) ==
    /\ pc[p] = "lock"
    /\ MayLock(p)
    /\ Path(p) # "hit"
    /\ lock' = p
    /\ checked' = [checked EXCEPT ![p] = [path |-> Path(p), at |-> now]]
    /\ pc' = [pc EXCEPT ![p] = "awaiting"]
    /\ reqs' = [reqs EXCEPT ![p] = @ + 1]
    /\ sent' = sent + 1
    /\ cache' = entry(cache, inst[p])
    /\ UNCHANGED <<appVars, jwtVars, now, ticks, inst, result, calls>>

\* the entry is vacant or expiring and App::jwt fails: no request is sent
SignFail(p) ==
    /\ pc[p] = "lock"
    /\ MayLock(p)
    /\ Path(p) # "hit"
    /\ checked' = [checked EXCEPT ![p] = [path |-> Path(p), at |-> now]]
    /\ result' = [result EXCEPT ![p] = Err(Jsonwebtoken)]
    /\ pc' = [pc EXCEPT ![p] = "done"]
    /\ lock' = Unlock(p)
    /\ UNCHANGED <<appVars, jwtVars, now, ticks, cache, inst, reqs, sent, calls>>

\* a faulty variant of Store: an empty token is stored when the request fails
StoreDefaultOnErr(map, k, r) ==
    IF r.ok THEN Insert(map, k, r.val[1]) ELSE Insert(map, k, AccessToken(0, 0, k))

\* a faulty variant of Store: the map is not keyed, the token goes into every
\* entry there is
StoreShared(map, k, r) ==
    IF r.ok THEN [i \in DOMAIN map \cup {k} |-> r.val[1]] ELSE map

\* a faulty variant of Store: an occupied entry is not overwritten
StoreIfVacant(map, k, r) == IF r.ok /\ k \notin DOMAIN map THEN Insert(map, k, r.val[1]) ELSE map

\* the map after App::access_token returned r to the arm that awaited it
Store(map, k, r) == IF r.ok THEN Insert(map, k, r.val[1]) ELSE map

\* a faulty variant of Returned: the entry is cloned before it is overwritten
ReturnedOld(map, k, r) ==
    IF r.ok THEN (IF k \in DOMAIN map THEN Ok(map[k]) ELSE Ok(r.val[1])) ELSE r

\* what Cache::access_token returns after App::access_token returned r
Returned(map, k, r) == IF r.ok THEN Ok(Store(map, k, r)[k]) ELSE r

\* a faulty variant of Respond: a token that is already inside the margin is
\* stored and the request is made again
RespondRetry(p) ==
    /\ pc[p] = "awaiting"
    /\ \E net \in TokenOutcomes, life \in Lifetimes :
         LET r == access_token_response(net, AccessToken(sent, now + life, inst[p]))
         IN  /\ cache' = Store(cache, inst[p], r)
             /\ IF r.ok /\ Expiring(r.val[1], now)
                THEN /\ reqs' = [reqs EXCEPT ![p] = @ + 1]
                     /\ sent' = sent + 1
                     /\ UNCHANGED <<result, pc, lock>>
                ELSE /\ result' = [result EXCEPT ![p] = Returned(cache, inst[p], r)]
                     /\ pc' = [pc EXCEPT ![p] = "done"]
                     /\ lock' = IF lock = p THEN Unlock(p) ELSE lock
                     /\ UNCHANGED <<reqs, sent>>
    /\ UNCHANGED <<appVars, jwtVars, now, ticks, inst, checked, calls>>

\* the POST completes: on Ok the entry is inserted or overwritten and its
\* clone returned, on Err the error is returned; the guard is dropped
Respond(p) ==
    /\ pc[p] = "awaiting"
    /\ \E net \in TokenOutcomes, life \in Lifetimes :
         LET r == access_token_response(net, AccessToken(sent, now + life, inst[p]))
         IN  /\ cache' = Store(cache, inst[p], r)
             /\ result' = [result EXCEPT ![p] = Returned(cache, inst[p], r)]
    /\ pc' = [pc EXCEPT ![p] = "done"]
    /\ lock' = IF lock = p THEN Unlock(p) ELSE lock
    /\ UNCHANGED <<appVars, jwtVars, now, ticks, inst, checked, reqs, sent, calls>>

\* the caller drops the future of its call while it is suspended, waiting for
\* the lock or for the POST: a guard it holds is dropped with it
Abandon(p) ==
    /\ pc[p] \in {"lock", "awaiting"}
    /\ pc' = [pc EXCEPT ![p] = "dropped"]
    /\ lock' = IF lock = p THEN Unlock(p) ELSE lock
    /\ UNCHANGED <<appVars, jwtVars, now, ticks, cache, inst, result, checked, reqs, sent, calls>>

CacheNext ==
    \/ Tick
    \/ \E p \in Callers : Call(p)
    \/ \E p \in Callers : Hit(p)
    \/ \E p \in Callers : Request(p)
    \/ \E p \in Callers : SignFail(p)
    \/ \E p \in Callers : Respond(p)
    \/ \E p \in Callers : Abandon(p)

----------------------------------------------------------------------------
(* App: installations (with pagination), access_token, repository_installation *)

\* installations on one page, at most
MaxPageSize == 2

\* requests of one paginated fetch (the loop itself has no cap)
MaxGets == 4

\* the URLs of the pages of the installations collection
Urls == {1, 2, 3}

\* {endpoint}/app/installations
StartUrl == 1

Methods == {"installations", "access_token", "repository_installation"}

Statuses == {200, 422, 500}

\* a page: how many installations it lists and the page its rel="next" names
Pages == [size : 0 .. MaxPageSize, next : {<< >>} \cup {<<u>> : u \in Urls}]

NoPages == [u \in Urls |-> [size |-> 0, next |-> << >>]]

\* the installations page u lists, in the page's order
PageItems(u) == [k \in 1 .. server[u].size |-> <<u, k>>]

\* the Link headers a page may carry: with no next page none, or one without
\* rel="next"; with a next page one that names it, alone or after other values
Prev == LinkValue(<<{"prev"}>>, GoodUrl(StartUrl))

NoRel == LinkValue(<< >>, GoodUrl(StartUrl))

RelNext(link) == LinkValue(<<{"next"}>>, link)

LinkHeaders(next) ==
    IF next = << >>
    THEN {Absent, Values(<<NoRel, Prev>>)}
    ELSE {Values(<<RelNext(GoodUrl(next[1]))>>),
          Values(<<Prev, RelNext(GoodUrl(next[1])), RelNext(BadUrl)>>)}

\* Link headers that are no use: see Absent above
FlawedLinks == {NotStr, Unparsable, Values(<<Prev, RelNext(BadUrl)>>)}

\* what send().await may give for the request of each method
NetOutcomes ==
    {NoResponse} \cup
    IF op = "installations"
    THEN {Received(PageResponse(s, l, b)) :
            s \in {t \in Statuses : is_success(t)},
            l \in LinkHeaders(server[cur].next) \cup FlawedLinks, b \in Bodies}
         \cup
         {Received(PageResponse(s, l, b)) :
            s \in {t \in Statuses : ~is_success(t)}, l \in {Absent, Unparsable}, b \in Bodies}
    ELSE {Received(Response(s, b)) : s \in Statuses, b \in Bodies}

\* what the body of a success response of each method decodes to
Typed ==
    IF op = "installations" THEN PageItems(cur)
    ELSE IF op = "access_token" THEN AccessToken(1, 2 * Margin, 1)
    ELSE [id |-> 1]

\* Url::parse(link_value.link())
Url_parse(link) == IF link.parses THEN Ok(link.url) ELSE Err(UrlParse)

\* values().iter().find_map(|link_value| link_value.rel().and_then(|rel|
\*     rel.contains(&RelationType::Next).then(|| Url::parse(link_value.link()))))
RECURSIVE find_map(_)
find_map(values) ==
    IF values = << >>
    THEN << >>
    ELSE IF Head(values).rel # << >> /\ "next" \in Head(values).rel[1]
         THEN <<Url_parse(Head(values).link)>>
         ELSE find_map(Tail(values))

\* Option<Result<Url, _>>::transpose
transpose(o) ==
    IF o = << >> THEN Ok(<< >>)
    ELSE IF o[1].ok THEN Ok(<<o[1].val[1]>>) ELSE o[1]

\* a faulty variant of link_url: a Link header that is no use ends the fetch
\* as an absent one does
link_url_lenient(link, u) ==
    IF link.kind \in {"absent", "notstr", "unparsable"} THEN Ok(u)
    ELSE LET n == transpose(find_map(link.values)) IN IF n.ok THEN n ELSE Ok(u)

\* a faulty variant of link_url: the url was not taken, a page without a Link
\* header leaves the URL of that page in it
link_url_untaken(link, u) ==
    IF link.kind = "absent" THEN Ok(<<cur>>)
    ELSE IF link.kind = "notstr" THEN Err(ReqwestHeaderToStr)
    ELSE IF link.kind = "unparsable" THEN Err(Hyper)
    ELSE transpose(find_map(link.values))

\* the if let Some(link) = response.headers().get(LINK) { url = ..? } of
\* pagination: the url after it, or the error
link_url(link, u) ==
    IF link.kind = "absent" THEN Ok(u)
    ELSE IF link.kind = "notstr" THEN Err(ReqwestHeaderToStr)
    ELSE IF link.kind = "unparsable" THEN Err(Hyper)
    ELSE transpose(find_map(link.values))

\* a faulty variant of append: the page is put in front of the items
append_front(acc, page) == page \o acc

\* items.append(&mut page)
append(acc, page) == acc \o page

\* a faulty variant of failed: the loop breaks and returns the items it has
failed_partial(acc, r) == Ok(acc)

\* the ? of pagination: what the fetch returns when a step of a page fails
failed(acc, r) == r

AppIdle ==
    /\ server = NoPages
    /\ op = "installations"
    /\ apc = "idle"
    /\ url = << >>
    /\ cur = StartUrl
    /\ items = << >>
    /\ response = << >>
    /\ aresult = NoResult
    /\ gets = 0
    /\ signs = 0
    /\ decodes = 0

\* App::new, and a call of one of the three methods against some upstream
AppInit ==
    /\ op \in Methods
    /\ server \in IF op = "installations" THEN [Urls -> Pages] ELSE {NoPages}
    /\ apc = "start"
    /\ url = << >>
    /\ cur = StartUrl
    /\ items = << >>
    /\ response = << >>
    /\ aresult = NoResult
    /\ gets = 0
    /\ signs = 0
    /\ decodes = 0

\* the method builds its URL; installations enters pagination
Start ==
    /\ apc = "start"
    /\ IF op = "installations"
       THEN url' = <<StartUrl>> /\ apc' = "loop"
       ELSE url' = url /\ apc' = "sign"
    /\ UNCHANGED <<cacheVars, jwtVars, waited, server, op, cur, items, response, aresult, gets, signs, decodes>>

\* a faulty variant of LoopTake: the first page's assertion is used again for
\* the pages after it
LoopTakeReuse ==
    /\ apc = "loop"
    /\ url # << >>
    /\ gets < MaxGets
    /\ cur' = url[1]
    /\ url' = << >>
    /\ apc' = IF signs = 0 THEN "sign" ELSE "send"
    /\ UNCHANGED <<cacheVars, jwtVars, waited, server, op, items, response, aresult, gets, signs, decodes>>

\* while let Some(u) = url.take(): there is a URL
LoopTake ==
    /\ apc = "loop"
    /\ url # << >>
    /\ gets < MaxGets
    /\ cur' = url[1]
    /\ url' = << >>
    /\ apc' = "sign"
    /\ UNCHANGED <<cacheVars, jwtVars, waited, server, op, items, response, aresult, gets, signs, decodes>>

\* while let Some(u) = url.take(): there is none; Ok(items)
LoopEnd ==
    /\ apc = "loop"
    /\ url = << >>
    /\ aresult' = Ok(items)
    /\ apc' = "done"
    /\ UNCHANGED <<cacheVars, jwtVars, waited, server, op, url, cur, items, response, gets, signs, decodes>>

\* the error e ends the method; pagination's items are dropped with it
Fails(e) ==
    /\ aresult' = IF op = "installations" THEN failed(items, e) ELSE e
    /\ apc' = "done"

\* self.jwt()?, in pagination through the closure f
Sign ==
    /\ apc = "sign"
    /\ signs' = signs + 1
    /\ \E signed \in BOOLEAN :
         IF signed THEN apc' = "send" /\ aresult' = aresult
         ELSE Fails(Err(Jsonwebtoken))
    /\ UNCHANGED <<cacheVars, jwtVars, waited, server, op, url, cur, items, response, gets, decodes>>

\* .send().await?
Send ==
    /\ apc = "send"
    /\ gets' = gets + 1
    /\ \E net \in NetOutcomes :
         IF net.sent
         THEN response' = <<net.response>> /\ apc' = "check" /\ aresult' = aresult
         ELSE response' = << >> /\ Fails(Err(Reqwest))
    /\ UNCHANGED <<cacheVars, jwtVars, waited, server, op, url, cur, items, signs, decodes>>

\* Error::check_status(response).await?
Check ==
    /\ apc = "check"
    /\ LET c == check_rest_api_response(response[1])
       IN  IF c.ok
           THEN /\ apc' = IF op = "installations" THEN "link" ELSE "decode"
                /\ aresult' = aresult
           ELSE Fails(c)
    /\ UNCHANGED <<cacheVars, jwtVars, waited, server, op, url, cur, items, response, gets, signs, decodes>>

\* pagination: the Link header of the page
Link ==
    /\ apc = "link"
    /\ LET n == link_url(response[1].link, url)
       IN  IF n.ok
           THEN url' = n.val[1] /\ apc' = "decode" /\ aresult' = aresult
           ELSE url' = url /\ Fails(n)
    /\ UNCHANGED <<cacheVars, jwtVars, waited, server, op, cur, items, response, gets, signs, decodes>>

\* .json().await?: pagination appends the page and loops, the other methods return
Decode ==
    /\ apc = "decode"
    /\ decodes' = decodes + 1
    /\ LET j == json(response[1], Typed)
       IN  IF ~j.ok
           THEN Fails(j) /\ items' = items
           ELSE IF op = "installations"
                THEN items' = append(items, j.val[1]) /\ apc' = "loop" /\ aresult' = aresult
                ELSE items' = items /\ apc' = "done" /\ aresult' = j
    /\ UNCHANGED <<cacheVars, jwtVars, waited, server, op, url, cur, response, gets, signs>>

AppNext ==
    \/ Start
    \/ LoopTake
    \/ LoopEnd
    \/ Sign
    \/ Send
    \/ Check
    \/ Link
    \/ Decode

----------------------------------------------------------------------------
(* App::jwt *)

\* calls of App::jwt in one behaviour
MaxJwts == 2

AppIds == {1, 2, 12345}

\* readings of the clock, in milliseconds
ClockSeconds == {0, 59, 60, 600, 86400}

ClockMillis == {0, 1, 999}

\* by how much the clock advances between two calls, in milliseconds
ClockAdvances == {1, 999, 1000}

\* Duration::seconds(n), in milliseconds
seconds(n) == n * 1000

\* DateTime::timestamp: the whole seconds of a time
timestamp(t) == t \div 1000

\* a faulty variant of jwt: the clock is read again for exp, a second later
jwt_two_readings(t, iss, ok) ==
    IF ok
    THEN Ok([iat |-> timestamp(t - seconds(60)),
             exp |-> timestamp(t + seconds(1) + seconds(10 * 60)),
             iss |-> iss])
    ELSE Err(Jsonwebtoken)

\* App::jwt with Utc::now() = t: the Payload that is signed, or the error of
\* jsonwebtoken::encode
jwt(t, iss, ok) ==
    IF ok
    THEN Ok([iat |-> timestamp(t - seconds(60)),
             exp |-> timestamp(t + seconds(10 * 60)),
             iss |-> iss])
    ELSE Err(Jsonwebtoken)

JwtIdle ==
    /\ id = 1
    /\ key_ok = TRUE
    /\ clock = 0
    /\ jwts = << >>

\* App::new(endpoint, id, private_key), at some time
JwtInit ==
    /\ id \in AppIds
    /\ key_ok \in BOOLEAN
    /\ clock \in {seconds(s) + ms : s \in ClockSeconds, ms \in ClockMillis}
    /\ jwts = << >>

\* self.jwt()
SignJwt ==
    /\ Len(jwts) < MaxJwts
    /\ jwts' = Append(jwts, [at |-> clock, jwt |-> jwt(clock, id, key_ok)])
    /\ UNCHANGED <<cacheVars, appVars, waited, id, key_ok, clock>>

\* time passes between two calls
Elapse ==
    /\ Len(jwts) < MaxJwts
    /\ jwts # << >>
    /\ clock = jwts[Len(jwts)].at
    /\ \E d \in ClockAdvances : clock' = clock + d
    /\ UNCHANGED <<cacheVars, appVars, waited, id, key_ok, jwts>>

JwtNext == SignJwt \/ Elapse

JwtBegin == JwtInit /\ CacheInit /\ AppIdle

JwtSpec == JwtBegin /\ [][JwtNext]_vars

AppBegin == AppInit /\ CacheInit /\ JwtIdle

AppSpec == AppBegin /\ [][AppNext]_vars

\* App::installations against an upstream whose pages are all full
FetchBegin ==
    /\ AppBegin
    /\ op = "installations"
    /\ \A u \in Urls : server[u].size = MaxPageSize

\* the future of the fetch is polled until it is ready, and a request that is
\* sent gets its response or its error
FetchSpec == FetchBegin /\ [][AppNext]_vars /\ WF_vars(AppNext)

Init == CacheInit /\ AppIdle /\ JwtIdle

\* the steps of CacheNext; the history of the waits is not kept
Next ==
    \/ Tick /\ UNCHANGED waited
    \/ \E p \in Callers : Call(p) /\ UNCHANGED waited
    \/ \E p \in Callers : Hit(p) /\ UNCHANGED waited
    \/ \E p \in Callers : Request(p) /\ UNCHANGED waited
    \/ \E p \in Callers : SignFail(p) /\ UNCHANGED waited
    \/ \E p \in Callers : Respond(p) /\ UNCHANGED waited
    \/ \E p \in Callers : Abandon(p) /\ UNCHANGED waited

Spec == Init /\ [][Next]_vars

\* a waiter takes the lock and runs the match up to its return or its await
Enter(p) == (Hit(p) \/ Request(p) \/ SignFail(p)) /\ UNCHANGED waited

\* tokio's Mutex hands the lock to its waiters in turn, and a POST that was sent
\* is answered (or fails) in the end; nobody is obliged to call or to abandon
FairSpec ==
    /\ Spec
    /\ \A p \in Callers : SF_vars(Enter(p))
    /\ \A p \in Callers : WF_vars(Respond(p) /\ UNCHANGED waited)

\* the history of the waits at self.inner.cache.lock().await: a call has
\* waited when it began while the lock was held, or was still waiting when
\* another call took the lock and kept it over its request
Waits ==
    waited' = [q \in Callers |->
                 IF pc[q] # "lock" /\ pc'[q] = "lock" THEN lock # Free
                 ELSE waited[q] \/ (pc[q] = "lock" /\ pc'[q] = "lock" /\ lock' # Free)]

\* the steps of CacheNext, each with the history of the waits
RaceNext ==
    \/ Tick /\ Waits
    \/ \E p \in Callers : Call(p) /\ Waits
    \/ \E p \in Callers : Hit(p) /\ Waits
    \/ \E p \in Callers : Request(p) /\ Waits
    \/ \E p \in Callers : SignFail(p) /\ Waits
    \/ \E p \in Callers : Respond(p) /\ Waits
    \/ \E p \in Callers : Abandon(p) /\ Waits

\* the cache with the history of the waits
RaceSpec == Init /\ [][RaceNext]_vars

----------------------------------------------------------------------------
(* Cache::access_token: the claims *)

Awaiting == {p \in Callers : pc[p] = "awaiting"}

\* p's call passes the lock in this step: its match on the entry runs
Passes(p) == pc[p] = "lock" /\ pc'[p] \notin {"lock", "dropped"}

\* p's request completes in this step
Completes(p) == pc[p] = "awaiting" /\ pc'[p] = "done"

\* C1: under any interleaving of callers, for any mix of installation ids, at
\* most one mint-or-renew request is in flight at any moment, and the caller
\* whose request is in flight holds the lock.
C1_OneRequestInFlight ==
    /\ Cardinality(Awaiting) <= 1
    /\ \A p \in Awaiting : lock = p
    /\ lock # Free => lock \in Awaiting

\* C1 witness: a request is in flight while a caller for another installation
\* waits for the lock.
C1_Witness ==
    \E p, q \in Callers :
        /\ pc[p] = "awaiting"
        /\ pc[q] = "lock"
        /\ inst[p] # inst[q]

\* C2 as stated: every token returned, from the cache, minted or renewed, has
\* an expiry strictly more than 60 seconds after the time of the call's check.
C2_Original ==
    \A p \in Callers :
        (pc[p] = "done" /\ result[p].ok)
            => result[p].val[1].expires_at > checked[p].at + Margin

\* C2 amended: a token returned from the cache without a request has an expiry
\* at least 60 seconds (not strictly more) after the time of the call's check;
\* minted and renewed tokens are returned with the expiry the API gave them.
C2_CachedTokenOutsideMargin ==
    \A p \in Callers :
        (pc[p] = "done" /\ result[p].ok /\ reqs[p] = 0)
            => result[p].val[1].expires_at >= checked[p].at + Margin

\* C2 witness: a token is returned from the cache with exactly 60 seconds left.
C2_Witness ==
    \E p \in Callers :
        /\ pc[p] = "done"
        /\ result[p].ok
        /\ reqs[p] = 0
        /\ result[p].val[1].expires_at = checked[p].at + Margin

\* C3: when the mint or the renewal fails, the map is the one the call found
\* (it did not change from the match on, nor by the failure), the caller gets
\* an error of App::access_token, the lock is free, and the entry is still
\* vacant or expiring, so that the next call for the installation requests.
C3_FailureKeepsMap ==
    [][\A p \in Callers :
          /\ (Passes(p) /\ pc'[p] = "awaiting") => cache' = cache
          /\ (pc[p] = "awaiting" /\ pc'[p] = "awaiting") => cache' = cache
          /\ (Completes(p) /\ ~result'[p].ok) =>
                /\ cache' = cache
                /\ Len(result'[p].err) = 1
                /\ result'[p].err[1].kind \in {"Reqwest", "RestApi"}
                /\ lock' = Free
                /\ (checked[p].path = "mint") = (inst[p] \notin DOMAIN cache')
                /\ inst[p] \in DOMAIN cache' =>
                       cache'[inst[p]].expires_at < now' + Margin]_vars

\* C3 witness: one caller's first mint has failed and left no entry, another's
\* renewal has failed and left the prior token.
C3_Witness ==
    \E p, q \in Callers :
        /\ pc[p] = "done" /\ ~result[p].ok /\ reqs[p] = 1
        /\ checked[p].path = "mint" /\ inst[p] \notin DOMAIN cache
        /\ pc[q] = "done" /\ ~result[q].ok /\ reqs[q] = 1
        /\ checked[q].path = "renew" /\ inst[q] \in DOMAIN cache

\* C4: a call that finds an entry with expiry < now + 60 never returns it: it
\* sends one renewal request (none if the assertion cannot be signed, and then
\* fails), and when the renewal succeeds the entry is overwritten with the
\* renewed token and that token, not the old one, is returned.
C4_ExpiringEntryIsRenewed ==
    [][\A p \in Callers :
          /\ (/\ Passes(p)
              /\ inst[p] \in DOMAIN cache
              /\ cache[inst[p]].expires_at < now + Margin) =>
                \/ /\ pc'[p] = "awaiting"
                   /\ reqs'[p] = 1
                   /\ sent' = sent + 1
                   /\ checked'[p].path = "renew"
                \/ /\ pc'[p] = "done"
                   /\ result'[p] = Err(Jsonwebtoken)
                   /\ sent' = sent
          /\ (Completes(p) /\ checked[p].path = "renew") =>
                /\ reqs'[p] = 1
                /\ sent' = sent
                /\ result'[p].ok =>
                      /\ cache'[inst[p]] = result'[p].val[1]
                      /\ result'[p].val[1] # cache[inst[p]]
                      /\ result'[p].val[1].token = sent]_vars

\* C4 witness: a renewal has succeeded at time 0, when no token the API has
\* handed out has expired yet.
C4_Witness ==
    \E p \in Callers :
        /\ pc[p] = "done"
        /\ result[p].ok
        /\ checked[p].path = "renew"
        /\ reqs[p] = 1
        /\ now = 0
        /\ cache[inst[p]] = result[p].val[1]

\* C5: a call that finds an entry with expiry >= now + 60 sends no request,
\* leaves the map unchanged and returns a token equal to the entry.
C5_FreshEntryIsReused ==
    [][\A p \in Callers :
          (/\ Passes(p)
           /\ inst[p] \in DOMAIN cache
           /\ cache[inst[p]].expires_at >= now + Margin) =>
                /\ pc'[p] = "done"
                /\ result'[p] = Ok(cache[inst[p]])
                /\ reqs'[p] = 0
                /\ sent' = sent
                /\ cache' = cache]_vars

\* C5 witness: two calls for one installation have returned equal tokens, the
\* first minted and the second from the cache, with one request sent in all.
C5_Witness ==
    \E p, q \in Callers :
        /\ pc[p] = "done" /\ result[p].ok /\ checked[p].path = "mint"
        /\ pc[q] = "done" /\ result[q].ok /\ checked[q].path = "hit"
        /\ inst[p] = inst[q]
        /\ result[p] = result[q]
        /\ sent = 1

\* C6: a call abandoned while its mint or renewal is in flight leaves the map
\* as the call found it (no entry for a mint, the old token for a renewal: the
\* map changed neither when the request was sent, nor while it was in flight,
\* nor by the drop), and the lock is no longer held by that call.
C6_AbandonKeepsMap ==
    [][\A p \in Callers :
          /\ (Passes(p) /\ pc'[p] = "awaiting") => cache' = cache
          /\ (pc[p] = "awaiting" /\ pc'[p] = "awaiting") => cache' = cache
          /\ (pc[p] = "awaiting" /\ pc'[p] = "dropped") =>
                /\ cache' = cache
                /\ lock' = Free
                /\ (checked[p].path = "mint") = (inst[p] \notin DOMAIN cache')]_vars

\* C6 witness: a first mint was abandoned in flight: no entry, lock free.
C6_Witness ==
    \E p \in Callers :
        /\ pc[p] = "dropped"
        /\ checked[p].path = "mint"
        /\ reqs[p] = 1
        /\ inst[p] \notin DOMAIN cache
        /\ lock = Free

\* the lock is held only by a call that is suspended on its request
LockHeldInCall == \A p \in Callers : lock = p => pc[p] = "awaiting"

\* C7: the lock is released on every exit path (success, error, abandonment),
\* and so every call that waits for the lock gets past it and ends, given that
\* the requests sent are answered.
C7_LockReleased ==
    /\ []LockHeldInCall
    /\ \A p \in Callers : (pc[p] = "lock") ~> (pc[p] \in {"done", "dropped"})

\* C7 witness: a renewal was abandoned in flight, and the request sent last,
\* a mint for another installation, has succeeded.
C7_Witness ==
    \E p, q \in Callers :
        /\ pc[p] = "dropped" /\ checked[p].path = "renew" /\ reqs[p] = 1
        /\ pc[q] = "done" /\ result[q].ok /\ reqs[q] = 1
        /\ inst[q] # inst[p]
        /\ result[q].val[1].token = sent

----------------------------------------------------------------------------
(* App: the claims *)

\* the pages from u on along the rel="next" links, n of them at most
RECURSIVE Chain(_, _)
Chain(u, n) ==
    IF n = 0 THEN << >>
    ELSE IF server[u].next = << >> THEN <<u>>
    ELSE <<u>> \o Chain(server[u].next[1], n - 1)

\* the installations of the pages us, page after page
RECURSIVE Concat(_)
Concat(us) == IF us = << >> THEN << >> ELSE PageItems(Head(us)) \o Concat(Tail(us))

\* C8: a successful pagination result is the concatenation, in page order and
\* in each page's order, of the pages from the start URL along the rel="next"
\* links up to and including the first page without one; one GET per page.
C8_ResultIsConcatenation ==
    (op = "installations" /\ apc = "done" /\ aresult.ok) =>
        /\ gets >= 1
        /\ LET ch == Chain(StartUrl, gets)
           IN  /\ Len(ch) = gets
               /\ server[ch[gets]].next = << >>
               /\ \A k \in 1 .. gets - 1 : server[ch[k]].next # << >>
               /\ aresult.val[1] = Concat(ch)

\* C8 witness: pages of sizes 2, 2, 1 have given 5 items in page order.
C8_Witness ==
    /\ op = "installations" /\ apc = "done" /\ aresult.ok
    /\ server[1] = [size |-> 2, next |-> <<2>>]
    /\ server[2] = [size |-> 2, next |-> <<3>>]
    /\ server[3] = [size |-> 1, next |-> << >>]
    /\ aresult.val[1] = << <<1, 1>>, <<1, 2>>, <<2, 1>>, <<2, 2>>, <<3, 1>> >>
    /\ gets = 3

\* the Link header in hand names a next page by a link that is no URL
NextIsNoUrl(link) ==
    /\ link.kind = "values"
    /\ \E i \in 1 .. Len(link.values) :
         /\ link.values[i].rel # << >> /\ "next" \in link.values[i].rel[1]
         /\ ~link.values[i].link.parses
         /\ \A j \in 1 .. i - 1 :
              link.values[j].rel = << >> \/ "next" \notin link.values[j].rel[1]

\* a step of the page under way fails in this step
PageStepFails ==
    \/ apc = "sign" /\ apc' # "send"
    \/ apc = "send" /\ apc' # "check"
    \/ apc = "check" /\ ~is_success(response[1].status)
    \/ apc = "link" /\ (response[1].link.kind \in {"notstr", "unparsable"}
                        \/ NextIsNoUrl(response[1].link))
    \/ apc = "decode" /\ response[1].body # "typed"

\* C9: pagination is all-or-nothing: when a step of a page fails (signing,
\* transport, status, Link header, URL, body) the fetch ends there with the
\* error alone, whatever items it had, and sends nothing more.
C9_AllOrNothing ==
    [][op = "installations" =>
          /\ PageStepFails =>
                /\ apc' = "done"
                /\ ~aresult'.ok
                /\ aresult'.val = << >>
                /\ Len(aresult'.err) = 1
                /\ gets' <= gets + 1
          /\ apc = "done" => (gets' = gets /\ signs' = signs /\ aresult' = aresult)]_vars

\* C9 witness: a fetch that had items has failed on a later page's Link header.
C9_Witness ==
    /\ op = "installations" /\ apc = "done"
    /\ ~aresult.ok
    /\ aresult.err = <<UrlParse>>
    /\ items # << >>
    /\ gets >= 2

\* a response is decoded only after, and in the state that follows, its check
DecodeFollowsCheck ==
    /\ decodes' # decodes => (apc = "decode" /\ is_success(response[1].status))
    /\ (apc' = "decode" /\ apc # "decode") =>
          (response' = response /\ apc \in {"check", "link"})
    /\ (apc' = "link" /\ apc # "link") => (response' = response /\ apc = "check")
    /\ apc' = "check" => apc \in {"send", "check"}

\* C10 as stated: in all three methods a success status passes the response on
\* to the decoding, and any non-success status yields a RestApi error with that
\* status, before and instead of the decoding.
C10_Original ==
    [][/\ DecodeFollowsCheck
       /\ apc = "check" =>
            IF is_success(response[1].status)
            THEN apc' \in {"link", "decode"} /\ response' = response
            ELSE /\ apc' = "done"
                 /\ decodes' = decodes
                 /\ \E m \in {"payload", "text"} :
                        aresult' = Err(RestApi(response[1].status, m))]_vars

\* C10 amended: as stated, except that a non-success response whose body
\* cannot be read yields the transport error of the read, not a RestApi error.
C10_StatusClassifiedFirst ==
    [][/\ DecodeFollowsCheck
       /\ apc = "check" =>
            IF is_success(response[1].status)
            THEN apc' \in {"link", "decode"} /\ response' = response
            ELSE /\ apc' = "done"
                 /\ decodes' = decodes
                 /\ IF response[1].body = "unreadable"
                    THEN aresult' = Err(Reqwest)
                    ELSE \E m \in {"payload", "text"} :
                            aresult' = Err(RestApi(response[1].status, m))]_vars

\* C10 witness: repository_installation got a 422 with an error body and has
\* returned the RestApi error with status 422 without decoding.
C10_Witness ==
    /\ op = "repository_installation" /\ apc = "done"
    /\ response # << >>
    /\ response[1].status = 422
    /\ aresult = Err(RestApi(422, "payload"))
    /\ decodes = 0

----------------------------------------------------------------------------
(* App::jwt: the claims *)

\* C11: every assertion is built from one reading now of the clock: issued-at
\* is now - 60 s, expiry is now + 600 s (in whole seconds), the issuer is the
\* application id; so expiry - issued-at = 660 s and the expiry is never more
\* than 600 s after the time of signing.
C11_AssertionWindow ==
    \A k \in 1 .. Len(jwts) :
        LET t == jwts[k].at
            r == jwts[k].jwt
        IN  /\ r.ok = key_ok
            /\ r.ok =>
                 LET payload == r.val[1]
                 IN  /\ payload.iat = (t \div 1000) - 60
                     /\ payload.exp = (t \div 1000) + 600
                     /\ payload.iss = id
                     /\ payload.exp - payload.iat = 660
                     /\ payload.exp * 1000 <= t + 600000
                     /\ payload.exp * 1000 > t + 599000

\* C11 witness: two assertions signed at times that are not whole seconds, the
\* second in a later second than the first.
C11_Witness ==
    /\ Len(jwts) = 2
    /\ jwts[1].jwt.ok /\ jwts[2].jwt.ok
    /\ jwts[1].at % 1000 # 0
    /\ jwts[2].jwt.val[1].exp = jwts[1].jwt.val[1].exp + 1
    /\ id = 12345

----------------------------------------------------------------------------
(* Cache::access_token: the claims about concurrent calls *)

\* p's last call made a request that succeeded
Minted(p) ==
    /\ pc[p] = "done"
    /\ checked[p].path \in {"mint", "renew"}
    /\ result[p].ok

\* C12: the check and the refresh are one atomic step: when a call q waited for
\* the lock while another call p for the same installation minted or renewed,
\* and p's token is at least 60 s from its expiry when q gets the lock, then q
\* returns p's token and sends no request: one request serves both.
C12_OneRequestServesAll ==
    [][\A p, q \in Callers :
         (/\ p # q
          /\ waited[q]
          /\ Passes(q)
          /\ inst[p] = inst[q]
          /\ Minted(p)
          /\ result[p].val[1].expires_at >= now + Margin)
         => (/\ sent' = sent
             /\ reqs'[q] = 0
             /\ pc'[q] = "done"
             /\ result'[q] = result[p]
             /\ cache' = cache)]_vars

\* C12 witness: two calls for the same vacant entry, one waited while the other
\* minted; one request was sent in all and both calls returned its token.
C12_Witness ==
    \E p, q \in Callers :
        /\ p # q
        /\ calls = 2
        /\ sent = 1
        /\ waited[q]
        /\ inst[p] = inst[q]
        /\ Minted(p)
        /\ checked[p].path = "mint"
        /\ pc[q] = "done"
        /\ checked[q].path = "hit"
        /\ reqs[q] = 0
        /\ result[q] = result[p]

\* C13: for one installation id the round trips never overlap and follow the
\* order in which the lock is taken: the lock is taken only when no request is
\* in flight; a round trip that succeeds puts its own token, the newest, into
\* the entry; the entry changes at no other step; and a call that returns
\* without a request of its own returns the entry as it stands, which is the
\* token of the last round trip that succeeded.
C13_RoundTripsInOrder ==
    [][/\ \A q \in Callers : Passes(q) => Awaiting = {}
       /\ \A p \in Callers :
            Completes(p) /\ result'[p].ok =>
                /\ cache'[inst[p]] = result'[p].val[1]
                /\ cache'[inst[p]].token = sent
                /\ \A i \in DOMAIN cache : cache[i].token < sent
       /\ \A i \in DOMAIN cache' :
            (i \notin DOMAIN cache \/ cache'[i] # cache[i]) =>
                \E p \in Callers : Completes(p) /\ result'[p].ok /\ inst[p] = i
       /\ \A q \in Callers :
            Passes(q) /\ pc'[q] = "done" /\ result'[q].ok =>
                /\ result'[q].val[1] = cache[inst[q]]
                /\ cache' = cache]_vars

\* C13 witness: the entry holds the token of the second round trip, a renewal,
\* and a call that waited during the renewal returned that token.
C13_Witness ==
    \E p, q \in Callers :
        /\ p # q
        /\ inst[p] = inst[q]
        /\ Minted(p)
        /\ checked[p].path = "renew"
        /\ cache[inst[p]].token = 2
        /\ result[p] = Ok(cache[inst[p]])
        /\ waited[q]
        /\ pc[q] = "done"
        /\ checked[q].path = "hit"
        /\ result[q] = Ok(cache[inst[q]])

\* C14: the lock is one for the whole cache: in a step in which a request
\* stays in flight, for whatever installation, no other call returns, be its
\* own installation different and its cached token far from expiry; a call
\* returns only when no other call's request is in flight.
C14_LockIsGlobal ==
    [][\A q \in Callers :
         pc[q] # "done" /\ pc'[q] = "done" =>
             \A p \in Callers \ {q} : pc[p] # "awaiting" /\ pc'[p] # "awaiting"]_vars

\* C14 witness: a request for one installation is in flight, and a call for
\* another installation, whose cached token is not expiring, waits for the lock.
C14_Witness ==
    \E p, q \in Callers :
        /\ pc[p] = "awaiting"
        /\ lock = p
        /\ pc[q] = "lock"
        /\ waited[q]
        /\ inst[q] # inst[p]
        /\ inst[q] \in DOMAIN cache
        /\ ~Expiring(cache[inst[q]], now)
        /\ cache[inst[q]].expires_at >= now + 2 * Margin

----------------------------------------------------------------------------
(* pagination: the claims about its requests *)

\* the pages from the start URL on; with the URLs there are, a chain that has
\* not ended by then has come back to a page it has passed
Pages_from_start == Chain(StartUrl, Cardinality(Urls))

\* the chain is finite: it ends on a page without rel="next"
Finite == server[Pages_from_start[Len(Pages_from_start)]].next = << >>

\* C15: when the chain of pages from the start URL is finite, of n pages, the
\* fetch ends, after n GET requests if none of them failed and after no more
\* than n otherwise; each GET goes to the URL that the page before named as
\* next, the first to the start URL.
C15_EndsAfterOneGetPerPage ==
    /\ (op = "installations" /\ apc = "start" /\ Finite) ~> (apc = "done")
    /\ [](op = "installations" /\ Finite =>
            /\ gets <= Len(Pages_from_start)
            /\ (apc = "done" /\ aresult.ok) => gets = Len(Pages_from_start))
    /\ [][op = "installations" /\ gets' = gets + 1 =>
            /\ gets < MaxGets
            /\ cur = Chain(StartUrl, gets + 1)[gets + 1]
            /\ gets = 0 => cur = StartUrl
            /\ gets > 0 => server[Chain(StartUrl, gets)[gets]].next = <<cur>>]_vars

\* C15 witness: a chain of three pages was fetched with three GET requests.
C15_Witness ==
    /\ op = "installations" /\ apc = "done" /\ aresult.ok
    /\ Finite
    /\ Pages_from_start = <<1, 3, 2>>
    /\ gets = 3
    /\ cur = 2

\* C16: a Link header that is present and is no header value in text, or does
\* not parse, or whose rel="next" value (the first of them) names no URL, ends
\* the fetch with that error, whatever the page, its body and the items so far,
\* and before the body is decoded; a fetch that ends well has ended on a page
\* whose Link header was absent or had no rel="next" value.
C16_FlawedLinkIsFatal ==
    /\ [][op = "installations" /\ apc = "link" =>
            LET link == response[1].link
            IN  /\ link.kind = "notstr" => aresult' = Err(ReqwestHeaderToStr)
                /\ link.kind = "unparsable" => aresult' = Err(Hyper)
                /\ NextIsNoUrl(link) => aresult' = Err(UrlParse)
                /\ (link.kind \in {"notstr", "unparsable"} \/ NextIsNoUrl(link)) =>
                      /\ apc' = "done"
                      /\ gets' = gets
                      /\ decodes' = decodes
                /\ apc' = "done" =>
                      (link.kind \in {"notstr", "unparsable"} \/ NextIsNoUrl(link))]_vars
    /\ [](op = "installations" /\ apc = "done" /\ aresult.ok =>
            LET link == response[1].link
            IN  \/ link.kind = "absent"
                \/ /\ link.kind = "values"
                   /\ \A i \in 1 .. Len(link.values) :
                        link.values[i].rel = << >> \/ "next" \notin link.values[i].rel[1])

\* C16 witness: the last page of a chain of two, with a body that would decode,
\* carried a Link header that does not parse, and the fetch failed on it.
C16_Witness ==
    /\ op = "installations" /\ apc = "done"
    /\ aresult = Err(Hyper)
    /\ gets = 2
    /\ items # << >>
    /\ server[cur].next = << >>
    /\ response[1].link.kind = "unparsable"
    /\ response[1].body = "typed"
    /\ is_success(response[1].status)

----------------------------------------------------------------------------
(* Cache: the claims about the map *)

\* C17: the map changes only in the step in which a call that holds the lock
\* gets the token of its own request, and then by the insert or overwrite of
\* the entry of that call's installation id with that token alone; no entry is
\* removed; an id comes into the map in just the steps in which a mint for it
\* succeeds; the clock, a new call and a dropped call change nothing.
C17_MapChangesOnlyByMint ==
    [][/\ DOMAIN cache \subseteq DOMAIN cache'
       /\ cache' # cache =>
            \E p \in Callers :
                /\ Completes(p)
                /\ lock = p
                /\ result'[p].ok
                /\ result'[p].val[1].token = sent
                /\ cache' = [i \in DOMAIN cache \cup {inst[p]} |->
                               IF i = inst[p] THEN result'[p].val[1] ELSE cache[i]]
       /\ \A p \in Callers :
            Completes(p) /\ result'[p].ok => inst[p] \in DOMAIN cache'
       /\ (now' # now \/ calls' # calls
              \/ \E p \in Callers : pc[p] # "dropped" /\ pc'[p] = "dropped")
            => cache' = cache]_vars

\* C17 witness: both ids are in the map, one by a mint and one by a mint and a
\* renewal: the third request's token has overwritten the first's.
C17_Witness ==
    /\ DOMAIN cache = Installations
    /\ \E i \in Installations : cache[i].token = 3
    /\ \E i \in Installations : cache[i].token = 2
    /\ sent = 3

\* C18: nothing is tried again: a call sends one request at most; the step
\* in which its request ends, with a token (be it already inside the margin),
\* with an error status or with no response, ends the call with that outcome
\* and sends nothing; a call whose signing fails sends nothing and returns the
\* signing error.
C18_NoRetry ==
    /\ [](\A p \in Callers :
            /\ reqs[p] <= 1
            /\ (pc[p] = "done" /\ result[p] = Err(Jsonwebtoken)) => reqs[p] = 0
            /\ (pc[p] = "done" /\ ~result[p].ok /\ reqs[p] = 1) =>
                  result[p].err[1].kind \in {"Reqwest", "RestApi"}
            /\ (pc[p] = "done" /\ ~result[p].ok) => checked[p].path \in {"mint", "renew"})
    /\ [][\A p \in Callers :
            /\ (/\ pc[p] = "awaiting"
                /\ pc'[p] # "dropped"
                /\ \/ pc'[p] # pc[p]
                   \/ reqs'[p] # reqs[p]
                   \/ result'[p] # result[p]
                   \/ cache' # cache) =>
                  /\ pc'[p] = "done"
                  /\ sent' = sent
                  /\ reqs'[p] = 1
                  /\ reqs[p] = 1
            /\ sent' # sent =>
                  /\ sent' = sent + 1
                  /\ \E q \in Callers : Passes(q) /\ reqs[q] = 0 /\ reqs'[q] = 1
            /\ (Passes(p) /\ result'[p] = Err(Jsonwebtoken)) => sent' = sent]_vars

\* C18 witness: a renewal has returned a token that is itself inside the
\* margin, after one request, and the call has ended with it.
C18_Witness ==
    \E p \in Callers :
        /\ pc[p] = "done"
        /\ checked[p].path = "renew"
        /\ reqs[p] = 1
        /\ result[p].ok
        /\ Expiring(result[p].val[1], now)
        /\ cache[inst[p]] = result[p].val[1]

\* the calls of App::jwt that gave an assertion: all but one that failed, which
\* ended the fetch
Signed == IF apc = "done" /\ aresult = Err(Jsonwebtoken) THEN signs - 1 ELSE signs

\* C19: in a paginated fetch the decorator runs once for each page, before the
\* page's GET is sent: it signs when as many assertions have been signed as
\* GETs sent, a GET is sent only with the assertion signed for it, and so the
\* assertions signed are as many as the GETs attempted (one more between the
\* signing and the sending).
C19_OneAssertionPerGet ==
    /\ [](op = "installations" =>
            /\ Signed = IF apc = "send" THEN gets + 1 ELSE gets
            /\ (apc = "done" /\ aresult.ok) => (signs = gets /\ gets >= 1))
    /\ [][op = "installations" =>
            /\ signs' # signs => (apc = "sign" /\ signs' = signs + 1 /\ signs = gets
                                  /\ gets' = gets)
            /\ gets' # gets => (apc = "send" /\ gets' = gets + 1 /\ signs = gets + 1
                                /\ signs' = signs)
            /\ (apc = "sign" /\ apc' = "done") => (aresult' = Err(Jsonwebtoken) /\ gets' = gets)]_vars

\* C19 witness: three pages were fetched with three assertions, one signed
\* before each GET.
C19_Witness ==
    /\ op = "installations" /\ apc = "done" /\ aresult.ok
    /\ gets = 3
    /\ signs = 3
    /\ Len(Pages_from_start) = 3

\* C20: tokens do not cross installation ids: the entry under an id holds a
\* token that a request for an Installation with that id obtained, and a call
\* for an Installation with id i returns only such a token, whether from the
\* entry or from its own request.
C20_TokensKeepTheirId ==
    /\ \A i \in DOMAIN cache : cache[i].installation = i /\ cache[i].token \in 1 .. sent
    /\ \A p \in Callers :
         (pc[p] = "done" /\ result[p].ok) =>
             /\ result[p].val[1].installation = inst[p]
             /\ result[p].val[1].token \in 1 .. sent
    /\ \A i, j \in DOMAIN cache : i # j => cache[i].token # cache[j].token

\* C20 witness: a call for one id waited while a call for the other id minted;
\* both have returned, each the token minted for its own id, and each id's entry
\* holds its own token.
C20_Witness ==
    \E p, q \in Callers :
        /\ inst[p] # inst[q]
        /\ waited[q]
        /\ Minted(p) /\ Minted(q)
        /\ DOMAIN cache = Installations
        /\ result[p] = Ok(cache[inst[p]])
        /\ result[q] = Ok(cache[inst[q]])
        /\ result[q].val[1].token = result[p].val[1].token + 1

====
